---- MODULE Spec2Model ----
(***************************************************************************)
(* Model of the concurrent archive-transcoding pipeline of src/main.rs:    *)
(* main_entry opens the source pak, filters its entries, creates the       *)
(* destination writer and runs one closure per filtered entry on a rayon   *)
(* pool (par_iter().try_for_each).  Each closure reads its entry under the *)
(* reader mutex, transforms it without a lock and appends it under the     *)
(* writer mutex.  After the pool has joined, the writer is finished.       *)
(***************************************************************************)
EXTENDS Integers, Sequences, FiniteSets, TLC

(* Size of the worker pool: how many closures can be in flight at once.    *)
NumWorkers == 2

(***************************************************************************)
(* The source archive.  Three entries, in archive order.                   *)
(***************************************************************************)
Entries == {"a", "b", "c"}

PakOrder == <<"a", "b", "c">>

Index(e) == CHOOSE i \in 1..Len(PakOrder) : PakOrder[i] = e

Hash == [e \in Entries |-> CASE e = "a" -> 11 [] e = "b" -> 22 [] OTHER -> 33]

UnkAttr == [e \in Entries |-> CASE e = "a" -> 5 [] e = "b" -> 6 [] OTHER -> 7]

(* The source stream and each entry's byte range in it.                    *)
SourceStream == <<1, 2, 3, 4, 5>>

Offset == [e \in Entries |-> CASE e = "a" -> 0 [] e = "b" -> 2 [] OTHER -> 3]

Size == [e \in Entries |-> CASE e = "a" -> 2 [] e = "b" -> 1 [] OTHER -> 2]

SourceBytes(e) == SubSeq(SourceStream, Offset[e] + 1, Offset[e] + Size[e])

(***************************************************************************)
(* The embedded file name table: hash -> name.  A name is a sequence of    *)
(* path components; the texture suffix is the last two of them.  The table *)
(* either names all three entries or has no name for c's hash.             *)
(***************************************************************************)
NoName == <<>>

TexSuffix == <<".tex", ".241106027">>

NameTableFull ==
    [h \in {11, 22, 33} |->
        CASE h = 11 -> <<"a", ".tex", ".241106027">>
          [] h = 22 -> <<"b", ".tex", ".241106027">>
          [] OTHER  -> <<"c", ".dat">>]

NameTablePartial == [h \in {11, 22} |-> NameTableFull[h]]

get_file_name(h, table) == IF h \in DOMAIN table THEN table[h] ELSE NoName

EndsWith(s, suffix) ==
    /\ Len(s) >= Len(suffix)
    /\ SubSeq(s, Len(s) - Len(suffix) + 1, Len(s)) = suffix

(* A classification by "has a name" alone, without the suffix test.        *)
IsNamedFile(h, file_name_table) == get_file_name(h, file_name_table) # NoName

is_tex_file(h, file_name_table) ==
    LET file_name == get_file_name(h, file_name_table)
    IN  IF file_name = NoName THEN FALSE ELSE EndsWith(file_name, TexSuffix)

(* A filter that keeps the textures in both modes.                         *)
FilterTexOnly(full_package, table) ==
    {e \in Entries : is_tex_file(Hash[e], table)}

(* A filter that keeps every entry in both modes.                          *)
FilterNothing(full_package, table) == Entries

(* The filtered entries: all of them in full-package mode, the textures    *)
(* otherwise.                                                              *)
FilterEntries(full_package, table) ==
    IF full_package THEN Entries
    ELSE {e \in Entries : is_tex_file(Hash[e], table)}

(***************************************************************************)
(* The stage at which an entry's pipeline is made to fail, if any.         *)
(***************************************************************************)
TexFaults == {"parse", "decompress", "serialize"}

FaultsFor(e, table) ==
    {"none", "read", "start_file", "write_all"}
        \cup (IF is_tex_file(Hash[e], table) THEN TexFaults ELSE {"copy"})

(* The texture codec: parse, decompress every mip level, serialize.        *)
TexDecompress(bytes) == bytes \o bytes

(* FileOptions::default() carries a zeroed attribute field.                *)
DefaultAttr == 0

VARIABLES
    pc,              \* where main_entry is
    exitStatus,      \* the process's exit status, -1 while it runs
    fullMode,        \* use_full_package_mode
    clone,           \* use_feature_clone
    filename_table,  \* the embedded file name table
    writerCreated,   \* PakWriter::new has run
    writerRefs,      \* the strong count of the Arc around the writer
    panicked,        \* "Arc::try_unwrap failed" was raised
    fault,           \* the injected failure of each entry
    entries,         \* the filtered entries
    stage,           \* each entry's stage
    full,            \* try_for_each has seen an error
    readerHolders,   \* the closures holding archive_reader_mtx
    cursor,          \* the source stream's position
    rawBuf,          \* the bytes each closure's entry_reader owns
    outBuf,          \* buf / tex_bytes of each closure
    writerHolders,   \* the closures holding pak_writer_mtx
    files,           \* the writer's table: records started so far
    bytes_written,   \* the AtomicUsize
    barPos,          \* the progress bar's position
    err,             \* the result of try_for_each: an entry or "none"
    errLog,          \* the errors printed to stderr
    finishCalls,     \* how often finish was called
    toc,             \* the finalized archive's table of contents
    finalized,       \* finish has written the trailer
    doneMsg          \* "Done!" was printed

vars == <<pc, exitStatus, fullMode, clone, filename_table, writerCreated,
          writerRefs, panicked, fault, entries, stage, full,
          readerHolders, cursor, rawBuf, outBuf, writerHolders, files,
          bytes_written, barPos, err, errLog, finishCalls, toc, finalized,
          doneMsg>>

InFlightStages == {"Dispatched", "Reading", "ReadSeeked", "Transforming",
                   "WaitWriter", "Writing", "WriteStarted", "WriteDone"}

Stages == {"Pending", "Done", "Failed"} \cup InFlightStages

InFlight == {e \in Entries : stage[e] \in InFlightStages}

Init ==
    /\ pc = "input"
    /\ exitStatus = -1
    /\ fullMode \in BOOLEAN
    /\ clone \in BOOLEAN
    /\ filename_table \in {NameTableFull, NameTablePartial}
    /\ writerCreated = FALSE
    /\ writerRefs = 0
    /\ panicked = FALSE
    /\ fault \in [Entries -> {"none", "read", "copy", "start_file", "write_all"}
                                \cup TexFaults]
    /\ \A e \in Entries :
          fault[e] \in (IF e \in FilterEntries(fullMode, filename_table)
                         THEN FaultsFor(e, filename_table) ELSE {"none"})
    /\ entries = {}
    /\ stage = [e \in Entries |-> "Pending"]
    /\ full = FALSE
    /\ readerHolders = {}
    /\ cursor = 0
    /\ rawBuf = [e \in Entries |-> <<>>]
    /\ outBuf = [e \in Entries |-> <<>>]
    /\ writerHolders = {}
    /\ files = <<>>
    /\ bytes_written = 0
    /\ barPos = 0
    /\ err = "none"
    /\ errLog = <<>>
    /\ finishCalls = 0
    /\ toc = <<>>
    /\ finalized = FALSE
    /\ doneMsg = FALSE


(***************************************************************************)
(* Startup: main_entry up to the creation of the writer.                   *)
(***************************************************************************)
StartupUnchanged ==
    UNCHANGED <<fullMode, clone, filename_table, fault, stage, full,
                readerHolders, cursor, rawBuf, outBuf, writerHolders, files, bytes_written, barPos,
                err, finishCalls, toc, finalized, doneMsg>>

(* The input path names a file.                                            *)
InputOk ==
    /\ pc = "input"
    /\ pc' = "names"
    /\ UNCHANGED <<exitStatus, entries, errLog, writerCreated, writerRefs, panicked>>
    /\ StartupUnchanged

(* FileNameTable::from_bytes succeeded.                                    *)
NamesOk ==
    /\ pc = "names"
    /\ pc' = "open"
    /\ UNCHANGED <<exitStatus, entries, errLog, writerCreated, writerRefs, panicked>>
    /\ StartupUnchanged

(* File::open and read_archive succeeded; the reader mutex is built.       *)
ArchiveOk ==
    /\ pc = "open"
    /\ pc' = "filter"
    /\ UNCHANGED <<exitStatus, entries, errLog, writerCreated, writerRefs, panicked>>
    /\ StartupUnchanged

Filter ==
    /\ pc = "filter"
    /\ entries' = FilterEntries(fullMode, filename_table)
    /\ pc' = "output"
    /\ UNCHANGED <<exitStatus, errLog, writerCreated, writerRefs, panicked>>
    /\ StartupUnchanged

(* The output file was created; PakWriter::new, the progress bar and the   *)
(* byte counter are set up.                                                *)
OutputOk ==
    /\ pc = "output"
    /\ pc' = "parallel"
    /\ writerCreated' = TRUE
    /\ writerRefs' = 2
    /\ UNCHANGED <<exitStatus, entries, errLog, panicked>>
    /\ StartupUnchanged

(* A startup error that is printed and then ignored.                       *)
AfterFatalGoOn(at) ==
    CASE at = "input" -> "names"
      [] at = "names" -> "open"
      [] at = "open" -> "filter"
      [] OTHER -> "parallel"

(* main_entry returns the startup error; main exits.                       *)
AfterFatal(at) == "exit"

(* bail! or `?` during startup: main prints the error and exits with 1.    *)
Fatal ==
    /\ pc \in {"input", "names", "open", "output"}
    /\ pc' = AfterFatal(pc)
    /\ exitStatus' = 1
    /\ errLog' = Append(errLog, "fatal")
    /\ UNCHANGED <<entries, writerCreated, writerRefs, panicked>>
    /\ StartupUnchanged

(***************************************************************************)
(* The parallel phase: one closure per filtered entry.                     *)
(***************************************************************************)

(* A pool that keeps handing out items after an error.                     *)
MayDispatchAlways == TRUE

(* try_for_each hands out no further item once an error was seen.          *)
MayDispatch == ~full

(* The stream read without the mutex.                                      *)
ReaderUnguarded == TRUE

(* parking_lot's Mutex::lock returns only when nobody holds the mutex.     *)
ReaderFree == readerHolders = {}

(* The writer used without the mutex.                                      *)
WriterUnguarded == TRUE

WriterFree == writerHolders = {}

(* A reader guard that outlives its block.                                 *)
KeepReader(holders, e) == holders

(* The reader guard is dropped at the end of the block it was taken in.    *)
ReleaseReader(holders, e) == holders \ {e}

(* The writer guard is dropped at the end of the branch it was taken in.   *)
ReleaseWriter(holders, e) == holders \ {e}

(* A guard that stays locked when `?` returns.                             *)
KeepOnError(holders, e) == holders

(* `?` returns from the closure and drops the guard it holds.              *)
ReleaseOnError(holders, e) == holders \ {e}

Min(x, y) == IF x < y THEN x ELSE y

(* read of n bytes at the stream's position.                               *)
StreamRead(pos, n) == SubSeq(SourceStream, pos + 1, Min(pos + n, Len(SourceStream)))

(* A copy that stops one byte short.                                       *)
CopyShort(bytes) == SubSeq(bytes, 1, Len(bytes) - 1)

(* plain file: io::copy of the entry reader into buf.                      *)
CopyPlain(bytes) == bytes

TransformBytes(e, bytes) ==
    IF is_tex_file(Hash[e], filename_table) THEN TexDecompress(bytes) ELSE CopyPlain(bytes)

(* File options that never take the source entry's attribute.              *)
FileOptionsDefaultOnly(e, use_feature_clone) == DefaultAttr

(* write_to_pak's file options.                                            *)
FileOptionsAttr(e, use_feature_clone) ==
    IF use_feature_clone THEN UnkAttr[e] ELSE DefaultAttr

(* start_file opens a new record in the writer's table.                    *)
StartFile(table, h, attr) == Append(table, [hash |-> h, attr |-> attr, data |-> <<>>])

(* write_all appends to the record opened last.                            *)
WriteData(table, bytes) ==
    [table EXCEPT ![Len(table)].data = table[Len(table)].data \o bytes]

WorkerUnchanged ==
    UNCHANGED <<pc, exitStatus, fullMode, clone, filename_table, writerCreated, writerRefs,
                   panicked,
                fault, entries, err, errLog,
                finishCalls, toc, finalized, doneMsg>>

Dispatch(e) ==
    /\ pc = "parallel"
    /\ e \in entries
    /\ stage[e] = "Pending"
    /\ MayDispatch
    /\ Cardinality(InFlight) < NumWorkers
    /\ stage' = [stage EXCEPT ![e] = "Dispatched"]
    /\ UNCHANGED <<full, readerHolders, cursor, rawBuf, outBuf, writerHolders,
                   files, bytes_written, barPos>>
    /\ WorkerUnchanged

AcquireReader(e) ==
    /\ stage[e] = "Dispatched"
    /\ ReaderFree
    /\ readerHolders' = readerHolders \cup {e}
    /\ stage' = [stage EXCEPT ![e] = "Reading"]
    /\ UNCHANGED <<full, cursor, rawBuf, outBuf, writerHolders, files,
                   bytes_written, barPos>>
    /\ WorkerUnchanged

(* owned_entry_reader: seek to the entry ...                               *)
Seek(e) ==
    /\ stage[e] = "Reading"
    /\ cursor' = Offset[e]
    /\ stage' = [stage EXCEPT ![e] = "ReadSeeked"]
    /\ UNCHANGED <<full, readerHolders, rawBuf, outBuf, writerHolders, files,
                   bytes_written, barPos>>
    /\ WorkerUnchanged

(* A closure that appends what it read without transforming it.           *)
ReadOkSkipTransform(e) ==
    /\ stage[e] = "ReadSeeked"
    /\ fault[e] # "read"
    /\ rawBuf' = [rawBuf EXCEPT ![e] = StreamRead(cursor, Size[e])]
    /\ cursor' = cursor + Len(StreamRead(cursor, Size[e]))
    /\ readerHolders' = ReleaseReader(readerHolders, e)
    /\ stage' = [stage EXCEPT ![e] = "WaitWriter"]
    /\ UNCHANGED <<full, outBuf, writerHolders, files, bytes_written, barPos>>
    /\ WorkerUnchanged

(* ... and read its bytes; the guard is dropped at the end of the block.   *)
ReadOk(e) ==
    /\ stage[e] = "ReadSeeked"
    /\ fault[e] # "read"
    /\ rawBuf' = [rawBuf EXCEPT ![e] = StreamRead(cursor, Size[e])]
    /\ cursor' = cursor + Len(StreamRead(cursor, Size[e]))
    /\ readerHolders' = ReleaseReader(readerHolders, e)
    /\ stage' = [stage EXCEPT ![e] = "Transforming"]
    /\ UNCHANGED <<full, outBuf, writerHolders, files, bytes_written, barPos>>
    /\ WorkerUnchanged

ReadFail(e) ==
    /\ stage[e] = "ReadSeeked"
    /\ fault[e] = "read"
    /\ readerHolders' = ReleaseOnError(readerHolders, e)
    /\ stage' = [stage EXCEPT ![e] = "Failed"]
    /\ full' = TRUE
    /\ UNCHANGED <<cursor, rawBuf, outBuf, writerHolders, files, bytes_written,
                   barPos>>
    /\ WorkerUnchanged

TransformOk(e) ==
    /\ stage[e] = "Transforming"
    /\ fault[e] \notin TexFaults \cup {"copy"}
    /\ outBuf' = [outBuf EXCEPT ![e] = TransformBytes(e, rawBuf[e])]
    /\ stage' = [stage EXCEPT ![e] = "WaitWriter"]
    /\ UNCHANGED <<full, readerHolders, cursor, rawBuf, writerHolders, files,
                   bytes_written, barPos>>
    /\ WorkerUnchanged

(* A texture that fails to transform is copied as it was read.             *)
TransformFallback(e) ==
    /\ stage[e] = "Transforming"
    /\ fault[e] \in TexFaults \cup {"copy"}
    /\ outBuf' = [outBuf EXCEPT ![e] = rawBuf[e]]
    /\ stage' = [stage EXCEPT ![e] = "WaitWriter"]
    /\ UNCHANGED <<full, readerHolders, cursor, rawBuf, writerHolders, files,
                   bytes_written, barPos>>
    /\ WorkerUnchanged

TransformFail(e) ==
    /\ stage[e] = "Transforming"
    /\ fault[e] \in TexFaults \cup {"copy"}
    /\ stage' = [stage EXCEPT ![e] = "Failed"]
    /\ full' = TRUE
    /\ UNCHANGED <<readerHolders, cursor, rawBuf, outBuf, writerHolders, files,
                   bytes_written, barPos>>
    /\ WorkerUnchanged

AcquireWriter(e) ==
    /\ stage[e] = "WaitWriter"
    /\ WriterFree
    /\ writerHolders' = writerHolders \cup {e}
    /\ stage' = [stage EXCEPT ![e] = "Writing"]
    /\ UNCHANGED <<full, readerHolders, cursor, rawBuf, outBuf, files,
                   bytes_written, barPos>>
    /\ WorkerUnchanged

StartFileOk(e) ==
    /\ stage[e] = "Writing"
    /\ fault[e] # "start_file"
    /\ files' = StartFile(files, Hash[e], FileOptionsAttr(e, clone))
    /\ stage' = [stage EXCEPT ![e] = "WriteStarted"]
    /\ UNCHANGED <<full, readerHolders, cursor, rawBuf, outBuf, writerHolders,
                   bytes_written, barPos>>
    /\ WorkerUnchanged

StartFileFail(e) ==
    /\ stage[e] = "Writing"
    /\ fault[e] = "start_file"
    /\ writerHolders' = ReleaseOnError(writerHolders, e)
    /\ stage' = [stage EXCEPT ![e] = "Failed"]
    /\ full' = TRUE
    /\ UNCHANGED <<readerHolders, cursor, rawBuf, outBuf, files, bytes_written,
                   barPos>>
    /\ WorkerUnchanged

WriteAllOk(e) ==
    /\ stage[e] = "WriteStarted"
    /\ fault[e] # "write_all"
    /\ files' = WriteData(files, outBuf[e])
    /\ stage' = [stage EXCEPT ![e] = "WriteDone"]
    /\ UNCHANGED <<full, readerHolders, cursor, rawBuf, outBuf, writerHolders,
                   bytes_written, barPos>>
    /\ WorkerUnchanged

(* write_all fails after a part of the payload went out; `?` returns and   *)
(* drops the guard, the record start_file opened stays in the table.       *)
WriteAllFail(e) ==
    /\ stage[e] = "WriteStarted"
    /\ fault[e] = "write_all"
    /\ \E k \in 0..(Len(outBuf[e]) - 1) :
          files' = WriteData(files, SubSeq(outBuf[e], 1, k))
    /\ writerHolders' = ReleaseOnError(writerHolders, e)
    /\ stage' = [stage EXCEPT ![e] = "Failed"]
    /\ full' = TRUE
    /\ UNCHANGED <<readerHolders, cursor, rawBuf, outBuf, bytes_written, barPos>>
    /\ WorkerUnchanged

(* write_to_pak returns the length of the data it wrote.                   *)
WriteResult(data) == Len(data)

(* A store in place of the add.                                            *)
CounterStore(n, written) == written

(* bytes_written.fetch_add(write_bytes, SeqCst)                            *)
CounterAdd(n, written) == n + written

(* fetch_add, the end of the block (the guard is dropped), bar.inc, Ok.    *)
FetchAdd(e) ==
    /\ stage[e] = "WriteDone"
    /\ bytes_written' = CounterAdd(bytes_written, WriteResult(outBuf[e]))
    /\ writerHolders' = ReleaseWriter(writerHolders, e)
    /\ barPos' = barPos + 1
    /\ stage' = [stage EXCEPT ![e] = "Done"]
    /\ UNCHANGED <<full, readerHolders, cursor, rawBuf, outBuf, files>>
    /\ WorkerUnchanged

(***************************************************************************)
(* After the pool: report, finish, exit.                                   *)
(***************************************************************************)
FailedEntries == {e \in entries : stage[e] = "Failed"}

(* try_for_each reduces the closures' results; of two errors the left one  *)
(* is kept.                                                                *)
LeftmostError ==
    IF FailedEntries = {} THEN "none"
    ELSE CHOOSE e \in FailedEntries : \A f \in FailedEntries : Index(e) <= Index(f)

(* A clone of the Arc that is still alive after try_for_each.              *)
RefsAfterJoinLeak(n) == n

(* try_for_each consumes the closure that owns pak_writer_mtx1: the clone  *)
(* is dropped when it returns.                                             *)
RefsAfterJoin(n) == n - 1

Join ==
    /\ pc = "parallel"
    /\ InFlight = {}
    /\ full \/ \A e \in entries : stage[e] # "Pending"
    /\ err' = LeftmostError
    /\ writerRefs' = RefsAfterJoin(writerRefs)
    /\ pc' = "joined"
    /\ UNCHANGED <<exitStatus, fullMode, clone, filename_table, writerCreated,
                   panicked,
                   fault, entries, stage, full,
                   readerHolders, cursor, rawBuf, outBuf, writerHolders, files,
                   bytes_written, barPos, errLog, finishCalls, toc, finalized,
                   doneMsg>>

(* An error of the parallel phase returned with `?` instead.               *)
AfterReportBail(error) == IF error = "none" THEN "finish" ELSE "exit"

(* Where main_entry goes after `if let Err(e) = err { eprintln!(..) }`.    *)
AfterReport(error) == "finish"

(* Arc::try_unwrap gives the writer back iff this is the only reference.   *)
TryUnwrap(refs) == refs = 1

(* The error of the pool is printed; then the writer is taken out of the   *)
(* Arc, or main_entry panics and the panic hook exits with 1.              *)
Report ==
    /\ pc = "joined"
    /\ LET printed == IF err # "none" THEN Append(errLog, err) ELSE errLog
           unwrapped == AfterReport(err) = "finish" /\ TryUnwrap(writerRefs)
           panics == AfterReport(err) = "finish" /\ ~TryUnwrap(writerRefs)
       IN  /\ errLog' = IF panics THEN Append(printed, "panic") ELSE printed
           /\ panicked' = panics
           /\ pc' = IF panics THEN "exit" ELSE AfterReport(err)
           /\ exitStatus' = IF panics \/ AfterReport(err) = "exit" THEN 1 ELSE exitStatus
           /\ writerRefs' = IF unwrapped THEN 0 ELSE writerRefs
    /\ UNCHANGED <<fullMode, clone, filename_table, writerCreated, fault,
                   entries, stage, full, readerHolders,
                   cursor, rawBuf, outBuf, writerHolders, files, bytes_written,
                   barPos, err, finishCalls, toc, finalized, doneMsg>>

(* What main_entry returns once finish succeeded, as main's exit status.   *)
StatusAfterFinish(error) == 0

(* finish writes the table and the trailer; "Done!" is printed, main_entry *)
(* returns Ok(()) and main returns.                                        *)
FinishOk ==
    /\ pc = "finish"
    /\ finishCalls' = finishCalls + 1
    /\ toc' = files
    /\ finalized' = TRUE
    /\ doneMsg' = TRUE
    /\ exitStatus' = StatusAfterFinish(err)
    /\ pc' = "exit"
    /\ UNCHANGED <<fullMode, clone, filename_table, writerCreated, writerRefs,
                   panicked, fault, entries, stage, full, readerHolders,
                   cursor, rawBuf, outBuf, writerHolders, files, bytes_written,
                   barPos, err, errLog>>

(* A failing finish whose error is dropped: the run goes on to Done.       *)
FinishFailIgnored ==
    /\ pc = "finish"
    /\ finishCalls' = finishCalls + 1
    /\ errLog' = Append(errLog, "finish")
    /\ doneMsg' = TRUE
    /\ exitStatus' = 0
    /\ pc' = "exit"
    /\ UNCHANGED <<fullMode, clone, filename_table, writerCreated, writerRefs,
                   panicked, fault, entries, stage, full, readerHolders,
                   cursor, rawBuf, outBuf, writerHolders, files, bytes_written,
                   barPos, err, toc, finalized>>

(* finish fails: `?` returns the error, main prints it and exits with 1.   *)
FinishFail ==
    /\ pc = "finish"
    /\ finishCalls' = finishCalls + 1
    /\ errLog' = Append(errLog, "finish")
    /\ exitStatus' = 1
    /\ pc' = "exit"
    /\ UNCHANGED <<fullMode, clone, filename_table, writerCreated, writerRefs,
                   panicked, fault, entries, stage, full, readerHolders,
                   cursor, rawBuf, outBuf, writerHolders, files, bytes_written,
                   barPos, err, toc, finalized, doneMsg>>

Next ==
    \/ InputOk
    \/ NamesOk
    \/ ArchiveOk
    \/ Filter
    \/ OutputOk
    \/ Fatal
    \/ \E e \in Entries : Dispatch(e)
    \/ \E e \in Entries : AcquireReader(e)
    \/ \E e \in Entries : Seek(e)
    \/ \E e \in Entries : ReadOk(e)
    \/ \E e \in Entries : ReadFail(e)
    \/ \E e \in Entries : TransformOk(e)
    \/ \E e \in Entries : TransformFail(e)
    \/ \E e \in Entries : AcquireWriter(e)
    \/ \E e \in Entries : StartFileOk(e)
    \/ \E e \in Entries : StartFileFail(e)
    \/ \E e \in Entries : WriteAllOk(e)
    \/ \E e \in Entries : WriteAllFail(e)
    \/ \E e \in Entries : FetchAdd(e)
    \/ Join
    \/ Report
    \/ FinishOk
    \/ FinishFail

Spec == Init /\ [][Next]_vars

(* The threads of the pool and the main thread keep being scheduled: a     *)
(* step that can be taken is eventually taken.                             *)
FairSpec == Spec /\ WF_vars(Next)

TypeOK ==
    /\ pc \in {"input", "names", "open", "filter", "output", "parallel",
               "joined", "finish", "exit"}
    /\ exitStatus \in {-1, 0, 1}
    /\ stage \in [Entries -> Stages]
    /\ entries \subseteq Entries
    /\ cursor \in 0..Len(SourceStream)

(***************************************************************************)
(* Properties of the pipeline.                                             *)
(***************************************************************************)
Appending == {e \in Entries : stage[e] \in {"Writing", "WriteStarted", "WriteDone"}}

ReadingNow == {e \in Entries : stage[e] \in {"Reading", "ReadSeeked"}}

DoneEntries == {e \in Entries : stage[e] = "Done"}

LastFile == files[Len(files)]

(* C1: at most one worker is inside the append critical section, and an    *)
(* entry's start_file and payload write are one unit: while an entry is    *)
(* between its start_file and the end of its write_all, the record opened  *)
(* last is its own and still empty, and every step that changes the        *)
(* writer's table is that entry's own step; after its write_all the record *)
(* holds exactly its payload.                                              *)
C1_AppendIsAtomic ==
    /\ [](/\ Cardinality(Appending) <= 1
          /\ Appending \subseteq writerHolders
          /\ \A e \in Entries :
                /\ stage[e] = "WriteStarted" =>
                      /\ LastFile.hash = Hash[e]
                      /\ LastFile.data = <<>>
                /\ stage[e] = "WriteDone" =>
                      /\ LastFile.hash = Hash[e]
                      /\ LastFile.data = outBuf[e])
    /\ [][\A e \in Entries :
              (stage[e] = "WriteStarted" /\ files' # files)
                  => stage'[e] # "WriteStarted"]_vars

C1_Witness ==
    \E e, f \in Entries :
        /\ stage[e] = "WriteStarted"
        /\ stage[f] = "WaitWriter"

(* C2: at most one worker at a time seeks and reads on the source stream:  *)
(* the workers between lock and unlock are at most one, the cursor still   *)
(* stands where the worker that seeked put it, and every step that moves   *)
(* the cursor is a step of the one worker holding the reader lock.         *)
C2_ReaderIsExclusive ==
    /\ [](/\ Cardinality(ReadingNow) <= 1
          /\ ReadingNow \subseteq readerHolders
          /\ \A e \in Entries : stage[e] = "ReadSeeked" => cursor = Offset[e])
    /\ [][cursor' # cursor =>
              \E e \in Entries :
                  /\ readerHolders = {e}
                  /\ stage[e] \in {"Reading", "ReadSeeked"}
                  /\ stage'[e] # stage[e]]_vars

C2_Witness ==
    \E e, f \in Entries :
        /\ stage[e] = "ReadSeeked"
        /\ stage[f] = "Dispatched"
        /\ cursor # 0

(* C3: once the writer was created, a run that has ended has called finish *)
(* exactly once, with or without failed entries; finish is never called    *)
(* twice, never before the pool has joined and never without a writer.     *)
C3_FinishExactlyOnce ==
    /\ finishCalls <= 1
    /\ (pc = "exit" /\ writerCreated) => finishCalls = 1
    /\ finishCalls = 1 => (pc = "exit" /\ writerCreated /\ InFlight = {})

C3_Witness ==
    /\ pc = "exit"
    /\ finishCalls = 1
    /\ \E e \in Entries : stage[e] = "Failed" /\ fault[e] = "read"
    /\ \E e \in Entries : stage[e] = "Failed" /\ fault[e] = "write_all"

FilesOf(table, e) == {i \in 1..Len(table) : table[i].hash = Hash[e]}

(* C4 (as claimed): a run in which an entry failed ends with a non-zero    *)
(* exit status after calling finish, and a run ends with status 0 only     *)
(* when every filtered entry succeeded.                                    *)
C4_NonZeroOnEntryFailure ==
    pc = "exit" =>
        /\ FailedEntries # {} => (exitStatus # 0 /\ finishCalls = 1)
        /\ exitStatus = 0 => \A e \in entries : stage[e] = "Done"

(* C5 (as claimed): the finalized archive lists exactly the entries whose  *)
(* pipeline succeeded, each once, and as many records as succeeded.        *)
C5_ExactlyTheSucceeded ==
    finalized =>
        /\ \A e \in Entries :
              IF stage[e] = "Done"
              THEN Cardinality(FilesOf(toc, e)) = 1
              ELSE FilesOf(toc, e) = {}
        /\ Len(toc) = Cardinality(DoneEntries)

(* C6: when no entry's pipeline failed, the writer handed to finish holds  *)
(* one record for every filtered entry (all three entries in full-package  *)
(* mode, the two textures in texture-only mode) with that entry's          *)
(* payload, whatever the interleaving was; and when finish succeeds the    *)
(* archive lists them, the run prints Done and exits with status 0.        *)
C6_AllFilteredPresent ==
    (pc \in {"finish", "exit"} /\ writerCreated /\ err = "none") =>
        /\ {files[i].hash : i \in 1..Len(files)}
              = (IF fullMode THEN {11, 22, 33} ELSE {11, 22})
        /\ Len(files) = (IF fullMode THEN 3 ELSE 2)
        /\ \A i \in 1..Len(files) :
              \A e \in Entries :
                  files[i].hash = Hash[e] =>
                      files[i].data = (IF e \in {"a", "b"}
                                       THEN TexDecompress(SourceBytes(e))
                                       ELSE SourceBytes(e))
        /\ finalized => (toc = files /\ doneMsg /\ exitStatus = 0)
        /\ (pc = "exit" /\ exitStatus = 0) => finalized

C6_Witness ==
    /\ pc = "exit"
    /\ err = "none"
    /\ fullMode
    /\ finalized
    /\ exitStatus = 0
    /\ Len(toc) = 3
    /\ toc[1].hash = 33

(* The scenario of C7: a is a valid texture, b a malformed one, c is       *)
(* c.dat; texture-only mode, attribute cloning on, no other failure.       *)
Scenario7 ==
    /\ ~fullMode
    /\ clone
    /\ filename_table = NameTableFull
    /\ fault = [e \in Entries |-> IF e = "b" THEN "parse" ELSE "none"]

(* C7 (as claimed): every run of the scenario that finalizes produces an   *)
(* archive with exactly one entry, a, with a's attribute, and reports b's  *)
(* failure.                                                                *)
C7_ExactlyA ==
    (Scenario7 /\ finalized) =>
        /\ Len(toc) = 1
        /\ toc[1].hash = 11
        /\ toc[1].attr = 5
        /\ errLog = <<"b">>

(* C7 (amended): every run of the scenario that finalizes reports b's      *)
(* failure and produces an archive with no entry but a: a alone, with a's  *)
(* attribute and decompressed payload, when a was dispatched before b's    *)
(* failure was seen, and no entry at all when it was not (a is then still  *)
(* pending at the end).                                                    *)
C7_AtMostA ==
    (Scenario7 /\ finalized) =>
        /\ errLog = <<"b">>
        /\ stage["b"] = "Failed"
        /\ stage["c"] = "Pending"
        /\ stage["a"] \in {"Done", "Pending"}
        /\ stage["a"] = "Done" =>
              toc = <<[hash |-> 11, attr |-> 5, data |-> <<1, 2, 1, 2>>]>>
        /\ stage["a"] = "Pending" => toc = <<>>

C7_Witness ==
    /\ Scenario7
    /\ finalized
    /\ stage["a"] = "Done"
    /\ Len(toc) = 1

(* C8: once try_for_each has seen an error, no pending entry is            *)
(* dispatched; the entries dispatched before run on, so the pool has       *)
(* joined only when none is in flight; and the writer's table only grows:  *)
(* no record is removed or changed in hash or attribute, and a record's    *)
(* payload only gets longer.                                               *)
C8_StopDispatchKeepWritten ==
    /\ [](pc \in {"joined", "finish", "exit"} => InFlight = {})
    /\ [][/\ full => \A e \in Entries : stage[e] = "Pending" => stage'[e] = "Pending"
          /\ Len(files') >= Len(files)
          /\ \A i \in 1..Len(files) :
                /\ files'[i].hash = files[i].hash
                /\ files'[i].attr = files[i].attr
                /\ Len(files'[i].data) >= Len(files[i].data)
                /\ SubSeq(files'[i].data, 1, Len(files[i].data)) = files[i].data]_vars

C8_Witness ==
    /\ full
    /\ \E e \in entries : stage[e] = "WriteDone"
    /\ \E e \in entries : stage[e] = "Pending"
    /\ \E e \in entries : stage[e] = "Failed"

(* C9: every entry written successfully has one record under its hash,     *)
(* and that record's attribute is the source entry's attribute when        *)
(* cloning is on and 0 when it is off, for textures and plain files alike. *)
C9_AttributeCloned ==
    \A e \in Entries :
        stage[e] = "Done" =>
            /\ FilesOf(files, e) # {}
            /\ \A i \in FilesOf(files, e) :
                  files[i].attr = (IF clone THEN UnkAttr[e] ELSE 0)

C9_Witness ==
    /\ clone
    /\ stage["a"] = "Done"
    /\ stage["c"] = "Done"
    /\ \E i \in 1..Len(files) : files[i].hash = 33 /\ files[i].attr = 7

(* C10: every plain (pass-through) entry written successfully has one      *)
(* record under its hash whose payload is the source entry's bytes.        *)
C10_PassThroughIdentity ==
    \A e \in Entries :
        (stage[e] = "Done" /\ ~is_tex_file(Hash[e], filename_table)) =>
            /\ Cardinality(FilesOf(files, e)) = 1
            /\ \A i \in FilesOf(files, e) : files[i].data = SourceBytes(e)

C10_Witness ==
    /\ stage["c"] = "Done"
    /\ stage["a"] = "Done"
    /\ \E i \in 1..Len(files) : files[i].hash = 33 /\ files[i].data = <<4, 5>>
    /\ filename_table = NameTablePartial

(* C11: an entry is a texture exactly when the table has a name for its    *)
(* hash and the name ends with the texture suffix: a and b are, c is not,  *)
(* with the name c.dat or with no name at all.  The entries handed to the  *)
(* pool are the textures in texture-only mode and all three entries in     *)
(* full-package mode; in texture-only mode c is never dispatched, read or  *)
(* appended; in full-package mode every entry has been dispatched when the *)
(* pool joins without an error.  A texture gets the texture transform, a   *)
(* plain entry the copy.                                                   *)
C11_ClassifyAndFilter ==
    /\ is_tex_file(11, filename_table)
    /\ is_tex_file(22, filename_table)
    /\ ~is_tex_file(33, filename_table)
    /\ (pc = "output" \/ writerCreated) =>
          entries = (IF fullMode THEN {"a", "b", "c"} ELSE {"a", "b"})
    /\ \A e \in Entries : stage[e] # "Pending" => e \in entries
    /\ ~fullMode =>
          /\ stage["c"] = "Pending"
          /\ rawBuf["c"] = <<>>
          /\ \A i \in 1..Len(files) : files[i].hash # 33
    /\ (fullMode /\ pc \in {"joined", "finish", "exit"} /\ writerCreated /\ err = "none") =>
          \A e \in Entries : stage[e] # "Pending"
    /\ \A e \in Entries :
          stage[e] \in {"WaitWriter", "Writing", "WriteStarted", "WriteDone", "Done"} =>
              outBuf[e] = (IF e = "c" THEN SourceBytes(e)
                           ELSE SourceBytes(e) \o SourceBytes(e))

C11_Witness ==
    /\ filename_table = NameTablePartial
    /\ fullMode
    /\ stage["c"] = "Done"
    /\ stage["a"] = "Done"
    /\ \E i \in 1..Len(files) : files[i].hash = 33

(* C12: a run in which a startup step failed (input file missing, name     *)
(* table or archive unreadable, output file not created) has ended with    *)
(* exit status 1 and has done no work: no writer was created, no entry     *)
(* left Pending, nothing was read or transformed, the writer's table is    *)
(* empty and finish was not called.                                        *)
C12_FatalBeforeAnyWork ==
    (Len(errLog) > 0 /\ errLog[1] = "fatal") =>
        /\ pc = "exit"
        /\ exitStatus = 1
        /\ ~writerCreated
        /\ errLog = <<"fatal">>
        /\ \A e \in Entries :
              /\ stage[e] = "Pending"
              /\ rawBuf[e] = <<>>
              /\ outBuf[e] = <<>>
        /\ files = <<>>
        /\ bytes_written = 0
        /\ finishCalls = 0
        /\ ~finalized
        /\ ~doneMsg

C12_Witness ==
    /\ errLog = <<"fatal">>
    /\ pc = "exit"
    /\ entries # {}

(* C13: a worker that is transforming (or waiting, or finished) holds      *)
(* neither lock; the reader lock is held only from lock to the end of      *)
(* owned_entry_reader, the writer lock only from lock to the end of the    *)
(* append; no worker holds both locks.                                     *)
C13_NoLockAcrossTransform ==
    /\ readerHolders \cap writerHolders = {}
    /\ \A e \in Entries :
          /\ e \in readerHolders <=> stage[e] \in {"Reading", "ReadSeeked"}
          /\ e \in writerHolders <=> stage[e] \in {"Writing", "WriteStarted", "WriteDone"}
          /\ stage[e] = "Transforming" =>
                (e \notin readerHolders /\ e \notin writerHolders)

C13_Witness ==
    \E e, f \in Entries :
        /\ stage[e] = "Transforming"
        /\ stage[f] = "ReadSeeked"
        /\ writerHolders = {}

(* C14: the Arc around the writer has two references while the pool runs   *)
(* and one once it has joined, so try_unwrap succeeds and the panic is     *)
(* never raised; finish is called only when no worker is in flight or      *)
(* holds the writer lock and the orchestrator owns the writer alone; and   *)
(* once finish was called the writer's table does not change.              *)
C14_SoleOwnerAtFinish ==
    /\ [](/\ ~panicked
          /\ pc = "parallel" => writerRefs = 2
          /\ pc = "joined" => (writerRefs = 1 /\ InFlight = {})
          /\ pc = "finish" => (writerRefs = 0 /\ InFlight = {} /\ writerHolders = {})
          /\ finishCalls > 0 => (writerRefs = 0 /\ InFlight = {} /\ writerHolders = {}))
    /\ [][/\ finishCalls' # finishCalls => (pc = "finish" /\ InFlight = {})
          /\ finishCalls > 0 => files' = files]_vars

C14_Witness ==
    /\ pc = "exit"
    /\ finishCalls = 1
    /\ writerRefs = 0
    /\ ~panicked
    /\ Cardinality(DoneEntries) = 2
    /\ FailedEntries # {}

StageOrder == <<"Pending", "Dispatched", "Reading", "ReadSeeked", "Transforming",
                "WaitWriter", "Writing", "WriteStarted", "WriteDone", "Done">>

Follows(s, t) ==
    \E i \in 1..(Len(StageOrder) - 1) : StageOrder[i] = s /\ StageOrder[i + 1] = t

(* C15: every step leaves an entry's stage alone, moves it to the next     *)
(* stage of Pending, (dispatched,) Reading, Transforming, Writing, Done,   *)
(* or moves it to Failed from a reading, transforming or writing stage;    *)
(* Done and Failed are never left; and an entry in a writing stage or Done *)
(* has had its own bytes read and transformed.                             *)
C15_StagesInOrder ==
    /\ [](\A e \in Entries :
            stage[e] \in {"WaitWriter", "Writing", "WriteStarted", "WriteDone", "Done"} =>
                /\ rawBuf[e] = SourceBytes(e)
                /\ outBuf[e] = TransformBytes(e, SourceBytes(e))
                /\ outBuf[e] # <<>>)
    /\ [][\A e \in Entries :
            \/ stage'[e] = stage[e]
            \/ /\ stage[e] \notin {"Done", "Failed"}
               /\ \/ Follows(stage[e], stage'[e])
                  \/ /\ stage'[e] = "Failed"
                     /\ stage[e] \in {"ReadSeeked", "Transforming", "Writing",
                                      "WriteStarted"}]_vars

C15_Witness ==
    /\ stage["a"] = "Done"
    /\ stage["b"] = "Failed"
    /\ stage["c"] = "WriteStarted"

(* C16: a texture whose parse, decompression or serialization fails never  *)
(* gets past the transform: it never waits for or holds the writer, no     *)
(* record carries its hash, in either mode, and it is not in the finalized *)
(* archive; once it has been transformed it is Failed.                     *)
C16_FailedTextureDropped ==
    \A e \in Entries :
        fault[e] \in {"parse", "decompress", "serialize"} =>
            /\ stage[e] \in {"Pending", "Dispatched", "Reading", "ReadSeeked",
                             "Transforming", "Failed"}
            /\ outBuf[e] = <<>>
            /\ \A i \in 1..Len(files) : files[i].hash # Hash[e]
            /\ \A i \in 1..Len(toc) : toc[i].hash # Hash[e]
            /\ (pc \in {"joined", "finish", "exit"} /\ writerCreated) =>
                    stage[e] \in {"Pending", "Failed"}

C16_Witness ==
    /\ fullMode
    /\ finalized
    /\ fault["b"] = "decompress"
    /\ stage["b"] = "Failed"
    /\ rawBuf["b"] = <<3>>
    /\ Len(toc) = 2

(* C17 (as claimed): once the pool's result has been reported, the error   *)
(* of every entry that failed in the run has been printed.                 *)
C17_EveryFailureReported ==
    (pc \in {"finish", "exit"} /\ writerCreated) =>
        \A e \in FailedEntries : \E i \in 1..Len(errLog) : errLog[i] = e

(* C18: under fair scheduling every run that reaches the parallel phase    *)
(* eventually calls finish and ends, and at the end every entry that was   *)
(* dispatched is Done or Failed: no state before the end is a deadlock;    *)
(* an entry that failed holds neither lock.                                *)
C18_Terminates ==
    /\ [](\A e \in Entries :
            stage[e] = "Failed" => (e \notin readerHolders /\ e \notin writerHolders))
    /\ [](pc = "exit" => \A e \in Entries : stage[e] \in {"Pending", "Done", "Failed"})
    /\ (pc = "parallel") ~> (pc = "exit" /\ finishCalls = 1)

C18_Witness ==
    \E e, g \in Entries :
        /\ stage[e] = "Failed" /\ fault[e] = "write_all"
        /\ stage[g] = "WriteStarted"
        /\ writerHolders = {g}

(* C19: when finish fails, its error is printed last, the run ends with    *)
(* exit status 1, Done is not printed and the archive is not finalized;    *)
(* the step in which finish is called, failing or not, leaves the records  *)
(* appended so far as they are.                                            *)
C19_FinishErrorIsFinal ==
    /\ []((Len(errLog) > 0 /\ errLog[Len(errLog)] = "finish") =>
            /\ pc = "exit"
            /\ exitStatus = 1
            /\ finishCalls = 1
            /\ ~doneMsg
            /\ ~finalized)
    /\ []((pc = "exit" /\ finishCalls = 1 /\ ~finalized) => exitStatus = 1)
    /\ [][finishCalls' # finishCalls => files' = files]_vars

C19_Witness ==
    /\ errLog = <<"finish">>
    /\ pc = "exit"
    /\ exitStatus = 1
    /\ Len(files) = 3

RECURSIVE PayloadSum(_)
PayloadSum(S) ==
    IF S = {} THEN 0
    ELSE LET e == CHOOSE x \in S : TRUE
             i == CHOOSE j \in FilesOf(files, e) : TRUE
         IN  Len(files[i].data) + PayloadSum(S \ {e})

(* C20: the byte counter is at every moment the sum of the payload lengths *)
(* of the entries appended successfully (so also when the pool has         *)
(* joined); it never decreases, and it changes only in the step in which   *)
(* an entry whose write_all succeeded completes, by that entry's payload   *)
(* length.                                                                 *)
C20_CounterIsPayloadSum ==
    /\ [](/\ bytes_written = PayloadSum(DoneEntries)
          /\ barPos = Cardinality(DoneEntries))
    /\ [][/\ bytes_written' >= bytes_written
          /\ bytes_written' # bytes_written =>
                \E e \in Entries :
                    /\ stage[e] = "WriteDone"
                    /\ stage'[e] = "Done"
                    /\ bytes_written' = bytes_written + Len(LastFile.data)]_vars

C20_Witness ==
    /\ pc = "joined"
    /\ bytes_written = 6
    /\ Cardinality(DoneEntries) = 2
    /\ \E e \in Entries : stage[e] = "Failed" /\ fault[e] = "write_all"

====
